---- MODULE Spec2Model ----
(***************************************************************************)
(* Model of the Resend mail client (tools/mailer/resend.go): the lazily    *)
(* created OnSend hook, Send with its hook chain, and the internal send    *)
(* routine that builds the payload, issues the request and classifies the  *)
(* response.                                                               *)
(*                                                                         *)
(* Strings are sequences of one-character strings, byte streams are        *)
(* sequences of 0..255, Go maps are TLA+ functions, and a Go error is a    *)
(* record holding the format string and its arguments.                     *)
(***************************************************************************)
EXTENDS Integers, Sequences, FiniteSets, TLC

(* ------------------------------ bounds -------------------------------- *)

\* Send calls made on one client in a behaviour
MaxSends == 1

\* observers registered on one hook instance
MaxObservers == 2

\* hook instances that can be allocated
MaxHooks == 2

\* goroutines sharing one client in the concurrent specification
NumThreads == 2

(* ------------------------- strings and bytes -------------------------- *)

RECURSIVE SplitAcc(_, _, _, _)
SplitAcc(s, sep, cur, acc) ==
    IF s = <<>> THEN Append(acc, cur)
    ELSE IF Head(s) = sep THEN SplitAcc(Tail(s), sep, <<>>, Append(acc, cur))
    ELSE SplitAcc(Tail(s), sep, Append(cur, Head(s)), acc)

\* strings.Split(s, sep) for a one-character separator
Split(s, sep) == SplitAcc(s, sep, <<>>, <<>>)

UpperLetters == <<"A","B","C","D","E","F","G","H","I","J","K","L","M",
                  "N","O","P","Q","R","S","T","U","V","W","X","Y","Z">>

LowerLetters == <<"a","b","c","d","e","f","g","h","i","j","k","l","m",
                  "n","o","p","q","r","s","t","u","v","w","x","y","z">>

FoldChar(c) ==
    IF \E i \in 1..Len(UpperLetters) : UpperLetters[i] = c
    THEN LowerLetters[CHOOSE i \in 1..Len(UpperLetters) : UpperLetters[i] = c]
    ELSE c

\* strings.EqualFold on ASCII strings
EqualFold(s, t) ==
    /\ Len(s) = Len(t)
    /\ \A i \in 1..Len(s) : FoldChar(s[i]) = FoldChar(t[i])

\* the literal "Message-ID"
MessageID == <<"M","e","s","s","a","g","e","-","I","D">>

Base64Alphabet ==
    <<"A","B","C","D","E","F","G","H","I","J","K","L","M","N","O","P",
      "Q","R","S","T","U","V","W","X","Y","Z","a","b","c","d","e","f",
      "g","h","i","j","k","l","m","n","o","p","q","r","s","t","u","v",
      "w","x","y","z","0","1","2","3","4","5","6","7","8","9","+","/">>

Base64Pad == "="

B64Char(n) == Base64Alphabet[n + 1]

RECURSIVE EncodeToString(_)
\* base64.StdEncoding.EncodeToString
EncodeToString(b) ==
    IF Len(b) = 0 THEN <<>>
    ELSE IF Len(b) = 1 THEN
        << B64Char(b[1] \div 4), B64Char((b[1] % 4) * 16), Base64Pad, Base64Pad >>
    ELSE IF Len(b) = 2 THEN
        << B64Char(b[1] \div 4),
           B64Char((b[1] % 4) * 16 + (b[2] \div 16)),
           B64Char((b[2] % 16) * 4),
           Base64Pad >>
    ELSE
        << B64Char(b[1] \div 4),
           B64Char((b[1] % 4) * 16 + (b[2] \div 16)),
           B64Char((b[2] % 16) * 4 + (b[3] \div 64)),
           B64Char(b[3] % 64) >>
        \o EncodeToString(SubSeq(b, 4, Len(b)))

IsB64Char(c) == \E n \in 0..63 : Base64Alphabet[n + 1] = c

B64Val(c) == CHOOSE n \in 0..63 : Base64Alphabet[n + 1] = c

RECURSIVE DecodeString(_)
\* base64.StdEncoding.DecodeString: [ok, bytes]
DecodeString(s) ==
    IF Len(s) = 0 THEN [ok |-> TRUE, bytes |-> <<>>]
    ELSE IF Len(s) < 4 THEN [ok |-> FALSE, bytes |-> <<>>]
    ELSE IF ~(IsB64Char(s[1]) /\ IsB64Char(s[2])) THEN [ok |-> FALSE, bytes |-> <<>>]
    ELSE IF s[3] = Base64Pad THEN
        IF s[4] = Base64Pad /\ Len(s) = 4
        THEN [ok |-> TRUE,
              bytes |-> << B64Val(s[1]) * 4 + (B64Val(s[2]) \div 16) >>]
        ELSE [ok |-> FALSE, bytes |-> <<>>]
    ELSE IF ~IsB64Char(s[3]) THEN [ok |-> FALSE, bytes |-> <<>>]
    ELSE IF s[4] = Base64Pad THEN
        IF Len(s) = 4
        THEN [ok |-> TRUE,
              bytes |-> << B64Val(s[1]) * 4 + (B64Val(s[2]) \div 16),
                           (B64Val(s[2]) % 16) * 16 + (B64Val(s[3]) \div 4) >>]
        ELSE [ok |-> FALSE, bytes |-> <<>>]
    ELSE IF ~IsB64Char(s[4]) THEN [ok |-> FALSE, bytes |-> <<>>]
    ELSE LET rest == DecodeString(SubSeq(s, 5, Len(s)))
         IN  [ok |-> rest.ok,
              bytes |-> << B64Val(s[1]) * 4 + (B64Val(s[2]) \div 16),
                           (B64Val(s[2]) % 16) * 16 + (B64Val(s[3]) \div 4),
                           (B64Val(s[3]) % 4) * 64 + B64Val(s[4]) >>
                        \o rest.bytes]

(* ------------------------------ errors -------------------------------- *)

\* the nil error
NilError == [isNil |-> TRUE, fmt |-> "", code |-> 0, arg |-> <<>>, cause |-> ""]

\* errors.New / fmt.Errorf: the format string and its arguments
\* (code for %d, arg for %s, cause for %w)
NewError(f, code, arg, cause) ==
    [isNil |-> FALSE, fmt |-> f, code |-> code, arg |-> arg, cause |-> cause]

(* ---------------------------- collaborators --------------------------- *)

\* mail.Address.String(): "Name" <local@domain>
AddressString(a) ==
    LET parts == Split(a.Address, "@")
        at == IF Len(parts) = 1 THEN a.Address \o <<"@">> ELSE a.Address
        s == <<"<">> \o at \o <<">">>
    IN  IF a.Name = <<>> THEN s ELSE <<"\"">> \o a.Name \o <<"\"", " ">> \o s

\* addressesToStrings(addresses, withName)
addressesToStrings(addresses, withName) ==
    [i \in 1..Len(addresses) |->
        IF withName /\ addresses[i].Name # <<>>
        THEN AddressString(addresses[i])
        ELSE addresses[i].Address]

RECURSIVE StripTags(_, _)
StripTags(h, inTag) ==
    IF h = <<>> THEN <<>>
    ELSE IF Head(h) = "<" THEN StripTags(Tail(h), TRUE)
    ELSE IF Head(h) = ">" THEN StripTags(Tail(h), FALSE)
    ELSE IF inTag THEN StripTags(Tail(h), inTag)
    ELSE <<Head(h)>> \o StripTags(Tail(h), inTag)

\* html2Text(html): the text outside the tags, or an error when the
\* document cannot be parsed (parseFails is decided by the environment)
html2Text(html, parseFails) ==
    IF parseFails THEN [err |-> TRUE, plain |-> <<>>]
    ELSE [err |-> FALSE, plain |-> StripTags(html, FALSE)]

\* a reader that never fails
NoFail == -1

\* bytes the content-type sniffer peeks at
SniffLen == 2

\* a reader yields data[1..failAt] and then a read error (failAt # NoFail),
\* or all of data and then EOF
ReaderFails(r) == r.failAt # NoFail

\* detectReaderMimeType(r): peeks at the leading bytes, keeps them for the
\* returned reader
detectReaderMimeType(r) ==
    IF ReaderFails(r) /\ r.failAt < SniffLen
    THEN [err |-> TRUE, cause |-> "sniff error", r |-> r, mime |-> ""]
    ELSE [err |-> FALSE, cause |-> "", r |-> r,
          mime |-> IF r.data = <<>> THEN "text/plain"
                   ELSE IF r.data[1] = 37 THEN "application/pdf"
                   ELSE "application/octet-stream"]

\* io.ReadAll(r)
ReadAll(r) ==
    IF ReaderFails(r)
    THEN [err |-> TRUE, cause |-> "read error", content |-> SubSeq(r.data, 1, r.failAt)]
    ELSE [err |-> FALSE, cause |-> "", content |-> r.data]

\* tokens of a response body that are JSON numbers
JSONNumbers == {"401", "422", "500"}

\* tokens that are not JSON values
JSONStructural == {"{", "}", "<html>"}

JSONIsString(t) == t \notin JSONNumbers /\ t \notin JSONStructural

JSONIsValue(t) == t \notin JSONStructural

RECURSIVE UnmarshalMembers(_, _)
\* the members of a JSON object decoded into resendErrorResponse;
\* acc is [ok, Message]
UnmarshalMembers(toks, acc) ==
    IF toks = <<>> THEN acc
    ELSE IF Len(toks) = 1 THEN [ok |-> FALSE, Message |-> acc.Message]
    ELSE LET k == toks[1]
             v == toks[2]
             rest == SubSeq(toks, 3, Len(toks))
         IN  IF ~JSONIsString(k) \/ ~JSONIsValue(v)
             THEN [ok |-> FALSE, Message |-> acc.Message]
             ELSE IF k = "message"
             THEN IF JSONIsString(v)
                  THEN UnmarshalMembers(rest, [ok |-> acc.ok, Message |-> v])
                  ELSE UnmarshalMembers(rest, [ok |-> FALSE, Message |-> acc.Message])
             ELSE IF k = "name" /\ ~JSONIsString(v)
             THEN UnmarshalMembers(rest, [ok |-> FALSE, Message |-> acc.Message])
             ELSE IF k = "statusCode" /\ JSONIsString(v)
             THEN UnmarshalMembers(rest, [ok |-> FALSE, Message |-> acc.Message])
             ELSE UnmarshalMembers(rest, acc)

\* json.Unmarshal(body, &errResp): a body is a sequence of tokens, an
\* object is "{" key value key value ... "}"
Unmarshal(body) ==
    IF Len(body) < 2 \/ body[1] # "{" \/ body[Len(body)] # "}"
    THEN [ok |-> FALSE, Message |-> ""]
    ELSE UnmarshalMembers(SubSeq(body, 2, Len(body) - 1), [ok |-> TRUE, Message |-> ""])

(* --------------------------- ResendClient.send ------------------------ *)

resendAPIEndpoint == "https://api.resend.com/emails"

\* length of the random token of a generated Message-ID
PseudorandomLen == 15

\* prepareAttachment reading the original reader after the sniffer consumed
\* its leading bytes
prepareAttachmentLosesPeek(name, data) ==
    LET d == detectReaderMimeType(data)
        c == ReadAll(d.r)
    IN  IF d.err THEN [err |-> TRUE, cause |-> d.cause, attachment |-> <<>>]
        ELSE IF c.err THEN [err |-> TRUE, cause |-> c.cause, attachment |-> <<>>]
        ELSE [err |-> FALSE, cause |-> "",
              attachment |-> [Filename |-> name,
                              Content |-> EncodeToString(
                                  SubSeq(c.content, SniffLen + 1, Len(c.content))),
                              ContentType |-> d.mime]]

\* prepareAttachment(name, data): [err, cause, attachment]
prepareAttachment(name, data) ==
    LET d == detectReaderMimeType(data)
        c == ReadAll(d.r)
    IN  IF d.err THEN [err |-> TRUE, cause |-> d.cause, attachment |-> <<>>]
        ELSE IF c.err THEN [err |-> TRUE, cause |-> c.cause, attachment |-> <<>>]
        ELSE [err |-> FALSE, cause |-> "",
              attachment |-> [Filename |-> name,
                              Content |-> EncodeToString(c.content),
                              ContentType |-> d.mime]]

RECURSIVE prepareAllSkipsFailed(_, _, _, _)
\* the loop continuing past an attachment that cannot be prepared
prepareAllSkipsFailed(order, atts, acc, errFmt) ==
    IF order = <<>> THEN [err |-> NilError, Attachments |-> acc]
    ELSE LET name == Head(order)
             a == prepareAttachment(name, atts[name])
         IN  IF a.err
             THEN prepareAllSkipsFailed(Tail(order), atts, acc, errFmt)
             ELSE prepareAllSkipsFailed(Tail(order), atts,
                                        Append(acc, a.attachment), errFmt)

RECURSIVE prepareAll(_, _, _, _)
\* the loop over one attachment map, in the iteration order `order`:
\* stops at the first attachment that cannot be prepared
prepareAll(order, atts, acc, errFmt) ==
    IF order = <<>> THEN [err |-> NilError, Attachments |-> acc]
    ELSE LET name == Head(order)
             a == prepareAttachment(name, atts[name])
         IN  IF a.err
             THEN [err |-> NewError(errFmt, 0, name, a.cause), Attachments |-> acc]
             ELSE prepareAll(Tail(order), atts, Append(acc, a.attachment), errFmt)

\* the text body derived from the HTML whatever m.Text holds
payloadTextAlwaysDerived(m, env) ==
    LET t == html2Text(m.HTML, env.html2TextFails)
    IN  IF ~t.err THEN t.plain ELSE m.Text

\* the text body of the payload
payloadText(m, env) ==
    IF m.Text = <<>>
    THEN LET t == html2Text(m.HTML, env.html2TextFails)
         IN  IF ~t.err THEN t.plain ELSE <<>>
    ELSE m.Text

\* the generated Message-ID header value
defaultMessageID(token, domain) ==
    <<"<">> \o token \o <<"@">> \o domain \o <<">">>

\* the headers with k == "Message-ID" as the test for a supplied id
payloadHeadersCaseSensitive(m, env) ==
    IF Cardinality(DOMAIN m.Headers) > 0
    THEN LET hasMessageId == \E k \in DOMAIN m.Headers : k = MessageID
             fromParts == Split(m.From.Address, "@")
         IN  IF ~hasMessageId /\ Len(fromParts) = 2
             THEN [k \in DOMAIN m.Headers \cup {MessageID} |->
                      IF k = MessageID
                      THEN defaultMessageID(env.token, fromParts[2])
                      ELSE m.Headers[k]]
             ELSE m.Headers
    ELSE <<>>

\* the headers with len(fromParts) >= 2 as the test for a domain
payloadHeadersAnyDomain(m, env) ==
    IF Cardinality(DOMAIN m.Headers) > 0
    THEN LET hasMessageId == \E k \in DOMAIN m.Headers : EqualFold(k, MessageID)
             fromParts == Split(m.From.Address, "@")
         IN  IF ~hasMessageId /\ Len(fromParts) >= 2
             THEN [k \in DOMAIN m.Headers \cup {MessageID} |->
                      IF k = MessageID
                      THEN defaultMessageID(env.token, fromParts[2])
                      ELSE m.Headers[k]]
             ELSE m.Headers
    ELSE <<>>

\* the headers of the payload
payloadHeaders(m, env) ==
    IF Cardinality(DOMAIN m.Headers) > 0
    THEN LET hasMessageId == \E k \in DOMAIN m.Headers : EqualFold(k, MessageID)
             fromParts == Split(m.From.Address, "@")
         IN  IF ~hasMessageId /\ Len(fromParts) = 2
             THEN [k \in DOMAIN m.Headers \cup {MessageID} |->
                      IF k = MessageID
                      THEN defaultMessageID(env.token, fromParts[2])
                      ELSE m.Headers[k]]
             ELSE m.Headers
    ELSE <<>>

\* the classification with > 300 as the upper test
checkResponseOffByOne(resp) ==
    IF resp.StatusCode < 200 \/ resp.StatusCode > 300
    THEN LET errResp == Unmarshal(resp.body)
         IN  IF errResp.ok /\ errResp.Message # ""
             THEN NewError("resend API error (%d): %s", resp.StatusCode,
                           <<errResp.Message>>, "")
             ELSE NewError("resend API error (%d): %s", resp.StatusCode,
                           resp.body, "")
    ELSE NilError

\* the classification of a received response
checkResponse(resp) ==
    IF resp.StatusCode < 200 \/ resp.StatusCode >= 300
    THEN LET errResp == Unmarshal(resp.body)
         IN  IF errResp.ok /\ errResp.Message # ""
             THEN NewError("resend API error (%d): %s", resp.StatusCode,
                           <<errResp.Message>>, "")
             ELSE NewError("resend API error (%d): %s", resp.StatusCode,
                           resp.body, "")
    ELSE NilError

\* the request issued again after a failure
doRequestRetries(req, net) ==
    IF net.fail
    THEN [err |-> NewError("failed to send resend request: %w", 0, <<>>,
                           "network error"),
          requests |-> <<req, req>>]
    ELSE [err |-> checkResponse(net),
          requests |-> IF checkResponse(net).isNil THEN <<req>> ELSE <<req, req>>]

\* client.Do(req) and the check of the response: one request, answered by
\* a network failure or by a response
doRequest(req, net) ==
    IF net.fail
    THEN [err |-> NewError("failed to send resend request: %w", 0, <<>>,
                           "network error"),
          requests |-> <<req>>]
    ELSE [err |-> checkResponse(net), requests |-> <<req>>]

\* send(m) past the API key check: builds the payload, issues the request
\* and classifies the response. env holds what the call draws from outside:
\* the random token, the map iteration orders, whether html2Text fails and
\* what the network answers. The result is the returned error and the
\* requests issued, in order.
sendWithKey(APIKey, m, env) ==
    LET regular == prepareAll(env.attOrder, m.Attachments, <<>>,
                              "failed to prepare attachment %s: %w")
        inline == prepareAll(env.inlineOrder, m.InlineAttachments,
                             regular.Attachments,
                             "failed to prepare inline attachment %s: %w")
        payload == [From |-> AddressString(m.From),
                    To |-> addressesToStrings(m.To, TRUE),
                    Cc |-> addressesToStrings(m.Cc, TRUE),
                    Bcc |-> addressesToStrings(m.Bcc, TRUE),
                    Subject |-> m.Subject,
                    HTML |-> m.HTML,
                    Text |-> payloadText(m, env),
                    Headers |-> payloadHeaders(m, env),
                    Attachments |-> inline.Attachments]
        req == [Method |-> "POST",
                URL |-> resendAPIEndpoint,
                Authorization |-> <<"Bearer ">> \o APIKey,
                ContentType |-> "application/json",
                payload |-> payload]
    IN  IF ~regular.err.isNil THEN [err |-> regular.err, requests |-> <<>>]
        ELSE IF ~inline.err.isNil THEN [err |-> inline.err, requests |-> <<>>]
        ELSE doRequest(req, env.net)

\* send without the API key check
sendNoKeyCheck(APIKey, m, env) == sendWithKey(APIKey, m, env)

\* send(m) on a client with the given APIKey
send(APIKey, m, env) ==
    IF APIKey = <<>>
    THEN [err |-> NewError("resend API key is required", 0, <<>>, ""),
          requests |-> <<>>]
    ELSE sendWithKey(APIKey, m, env)

(* ------------------------- the OnSend hook chain ---------------------- *)

\* c.onSend == nil
Nil == 0

\* the mark of the terminal function in a trace (observers are 1, 2, ...)
Terminal == 0

\* the terminal function Send hands to Trigger
oneOffSend(APIKey, e, env) == send(APIKey, e.Message, env)

RECURSIVE eventNext(_, _, _, _, _)
\* e.Next() with the observers from position i on still to run: an observer
\* either returns its own result without forwarding ("stop"), forwards
\* ("next"), or changes the event's Message and forwards ("mutate").
\* ran lists the observers invoked, in order; trace lists them with
\* Terminal for the call of the terminal function; sent holds the Message
\* the terminal function was called with.
eventNext(handlers, i, e, APIKey, env) ==
    IF i > Len(handlers)
    THEN LET r == oneOffSend(APIKey, e, env)
         IN  [err |-> r.err, requests |-> r.requests, ran |-> <<>>,
              trace |-> <<Terminal>>, sent |-> <<e.Message>>]
    ELSE LET o == handlers[i]
         IN  IF o.kind = "stop"
             THEN [err |-> o.result, requests |-> <<>>, ran |-> <<i>>,
                   trace |-> <<i>>, sent |-> <<>>]
             ELSE LET e2 == IF o.kind = "mutate"
                            THEN [Message |-> [e.Message EXCEPT !.Subject = o.subject]]
                            ELSE e
                      r == eventNext(handlers, i + 1, e2, APIKey, env)
                  IN  [r EXCEPT !.ran = <<i>> \o r.ran, !.trace = <<i>> \o r.trace]

\* hook.Trigger(event, oneOff)
Trigger(handlers, e, APIKey, env) == eventNext(handlers, 1, e, APIKey, env)

\* c.send(m) called directly
directSend(APIKey, m, env) ==
    LET r == send(APIKey, m, env)
    IN  [err |-> r.err, requests |-> r.requests, ran |-> <<>>,
         trace |-> <<Terminal>>, sent |-> <<m>>]

\* Send that never consults the hook
ClientSendIgnoresHook(h, hs, APIKey, m, env) == directSend(APIKey, m, env)

\* Send whose terminal function sends m instead of e.Message
ClientSendOriginalMessage(h, hs, APIKey, m, env) ==
    IF h # Nil
    THEN LET r == Trigger(hs[h], [Message |-> m], APIKey, env)
         IN  IF r.sent = <<>> THEN r
             ELSE [directSend(APIKey, m, env) EXCEPT !.ran = r.ran, !.trace = r.trace]
    ELSE directSend(APIKey, m, env)

\* Send that transmits nothing when the hook has no observers
ClientSendSkipsEmptyHook(h, hs, APIKey, m, env) ==
    IF h # Nil
    THEN IF hs[h] = <<>>
         THEN [err |-> NilError, requests |-> <<>>, ran |-> <<>>,
               trace |-> <<>>, sent |-> <<>>]
         ELSE Trigger(hs[h], [Message |-> m], APIKey, env)
    ELSE directSend(APIKey, m, env)

\* ResendClient.Send(m) with c.onSend = h and hs the handlers of the hook
\* instances
ClientSend(h, hs, APIKey, m, env) ==
    IF h # Nil
    THEN Trigger(hs[h], [Message |-> m], APIKey, env)
    ELSE directSend(APIKey, m, env)

(* ------------------------------- inputs ------------------------------- *)

Addr(name, address) == [Name |-> name, Address |-> address]

\* a sender with one "@", with none and with two
FromAddrs ==
    { Addr(<<"T">>, <<"a","@","b">>),
      Addr(<<>>, <<"a","b">>),
      Addr(<<>>, <<"a","@","b","@","c">>) }

XCustom == <<"X","-","C">>

LowerMessageID == <<"m","e","s","s","a","g","e","-","i","d">>

\* no headers, a custom header, a Message-ID in another case, a custom
\* header with a Message-ID, and two Message-ID keys
HeaderMaps ==
    { <<>>,
      (XCustom :> <<"v">>),
      (LowerMessageID :> <<"<","i",">">>),
      (XCustom :> <<"v">>) @@ (MessageID :> <<"<","i",">">>),
      (LowerMessageID :> <<"<","i",">">>) @@ (MessageID :> <<"<","j",">">>) }

HTMLHi == <<"<","p",">","H","i","<","/","p",">">>

Reader(data, failAt) == [data |-> data, failAt |-> failAt]

F1 == <<"f","1">>

F2 == <<"f","2">>

\* readers of 0 to 4 bytes, one failing while sniffed, one failing later
RegularMaps ==
    { <<>>,
      (F1 :> Reader(<<77>>, NoFail)),
      (F1 :> Reader(<<37, 80, 255>>, NoFail)) @@ (F2 :> Reader(<<0, 16, 131, 255>>, NoFail)),
      (F1 :> Reader(<<77, 97, 110>>, 0)),
      (F1 :> Reader(<<77, 97>>, NoFail)) @@ (F2 :> Reader(<<77, 97, 110>>, 3)) }

InlineMaps ==
    { <<>>,
      (F1 :> Reader(<<251, 240>>, NoFail)),
      (F2 :> Reader(<<77, 97, 110>>, 2)),
      (F1 :> Reader(<<>>, NoFail)) @@ (F2 :> Reader(<<104, 105, 33, 10, 0>>, NoFail)) }

DefaultMsg ==
    [From |-> Addr(<<"T">>, <<"a","@","b">>),
     To |-> << Addr(<<>>, <<"r","@","b">>) >>,
     Cc |-> <<>>,
     Bcc |-> <<>>,
     Subject |-> <<"S">>,
     HTML |-> HTMLHi,
     Text |-> <<>>,
     Headers |-> <<>>,
     Attachments |-> <<>>,
     InlineAttachments |-> <<>>]

\* the orders in which a range loop can visit the keys of a map
Orders(mp) ==
    { o \in [1..Cardinality(DOMAIN mp) -> DOMAIN mp] :
        \A i, j \in 1..Cardinality(DOMAIN mp) : i # j => o[i] # o[j] }

\* security.PseudorandomString(n) drawing the character c every time
PseudorandomString(n, c) == [i \in 1..n |-> c]

StatusCodes == {199, 200, 299, 300, 401}

Bodies ==
    { <<>>,
      <<"<html>">>,
      <<"{", "id", "test-id", "}">>,
      <<"{", "statusCode", "401", "message", "Invalid API key", "name", "unauthorized", "}">>,
      <<"{", "message", "", "}">>,
      <<"{", "message", "422", "}">>,
      <<"{", "message", "Invalid API key", "statusCode", "oops", "}">> }

NetFailure == [fail |-> TRUE, StatusCode |-> 0, body |-> <<>>]

Response(status, body) == [fail |-> FALSE, StatusCode |-> status, body |-> body]

NetOutcomes == {NetFailure} \cup { Response(st, b) : st \in StatusCodes, b \in Bodies }

Env(m, c, parseFails, att, inl, net) ==
    [token |-> PseudorandomString(PseudorandomLen, c),
     html2TextFails |-> parseFails,
     attOrder |-> att,
     inlineOrder |-> inl,
     net |-> net]

DefaultEnv(m) ==
    Env(m, "x", FALSE, CHOOSE o \in Orders(m.Attachments) : TRUE,
        CHOOSE o \in Orders(m.InlineAttachments) : TRUE, Response(200, <<>>))

Call(m, env) == [m |-> m, env |-> env]

\* senders and headers
HeaderCalls ==
    { Call([DefaultMsg EXCEPT !.From = f, !.Headers = h], DefaultEnv(DefaultMsg)) :
        f \in FromAddrs, h \in HeaderMaps }

\* another random token
TokenCalls ==
    { Call([DefaultMsg EXCEPT !.Headers = (XCustom :> <<"v">>)],
           [DefaultEnv(DefaultMsg) EXCEPT !.token = PseudorandomString(PseudorandomLen, "y")]) }

\* text and HTML bodies, html2Text working or failing
TextCalls ==
    { Call([DefaultMsg EXCEPT !.Text = t, !.HTML = h],
           [DefaultEnv(DefaultMsg) EXCEPT !.html2TextFails = pf]) :
        t \in {<<>>, <<"T">>}, h \in {<<>>, HTMLHi}, pf \in BOOLEAN }

AttachMsgs ==
    { [DefaultMsg EXCEPT !.Attachments = a, !.InlineAttachments = i] :
        a \in RegularMaps, i \in InlineMaps }

\* attachments, in every iteration order of the two maps
AttachCalls ==
    UNION { { Call(m, [DefaultEnv(m) EXCEPT !.attOrder = ao, !.inlineOrder = io]) :
                ao \in Orders(m.Attachments), io \in Orders(m.InlineAttachments) } :
            m \in AttachMsgs }

\* what the network answers
ResponseCalls ==
    { Call(DefaultMsg, [DefaultEnv(DefaultMsg) EXCEPT !.net = n]) : n \in NetOutcomes }

\* recipients with and without a name
RecipientCalls ==
    { Call([DefaultMsg EXCEPT !.Cc = << Addr(<<"C">>, <<"c","@","b">>) >>,
                               !.Bcc = << Addr(<<>>, <<"d","@","b">>) >>],
           DefaultEnv(DefaultMsg)) }

Calls ==
    HeaderCalls \cup TokenCalls \cup TextCalls \cup AttachCalls \cup ResponseCalls
    \cup RecipientCalls

ObsNext == [kind |-> "next", result |-> NilError, subject |-> <<>>]

ObsStopNil == [kind |-> "stop", result |-> NilError, subject |-> <<>>]

ObsStopErr ==
    [kind |-> "stop", result |-> NewError("blocked by observer", 0, <<>>, ""),
     subject |-> <<>>]

ObsMutate == [kind |-> "mutate", result |-> NilError, subject |-> <<"M">>]

Observers == {ObsNext, ObsStopNil, ObsStopErr, ObsMutate}

APIKeys == { <<>>, <<"k">> }

(* -------------------------------- state ------------------------------- *)

VARIABLES
    APIKey,     \* c.APIKey
    onSend,     \* c.onSend: Nil or a hook instance
    nHooks,     \* hook instances allocated so far (instances are 1..nHooks)
    hooks,      \* the observers registered on each hook instance, in order
    returned,   \* the values OnSend calls have returned
    sends,      \* Send calls made
    netCount,   \* requests issued since the client was constructed
    last,       \* the last Send call: its input, and what it did and returned
    pc,         \* concurrent specification: where each goroutine is
    local,      \* concurrent specification: each goroutine's locals
    formSettings,           \* mail settings form: the edited settings
    originalFormSettings,   \* mail settings form: the settings as loaded
    isLoading,              \* mail settings form: loadSettings is running
    isSaving,               \* mail settings form: a save is running
    inflight,               \* mail settings form: update requests not answered yet
    lastSave,               \* mail settings form: the last call of save()
    lastResult              \* mail settings form: how the last answered update ended

clientVars == <<APIKey, onSend, nHooks, hooks, returned, sends, netCount, last, pc, local>>

formVars == <<formSettings, originalFormSettings, isLoading, isSaving, inflight, lastSave,
              lastResult>>

vars == <<clientVars, formVars>>

\* let formSettings = {}, originalFormSettings = {}
NoSettings == [loaded |-> FALSE]

NoSave == [called |-> FALSE]

\* the component's script up to the first await of loadSettings()
FormCreated ==
    /\ formSettings = NoSettings
    /\ originalFormSettings = NoSettings
    /\ isLoading = TRUE
    /\ isSaving = FALSE
    /\ inflight = <<>>
    /\ lastSave = NoSave
    /\ lastResult = "none"

Threads == 1..NumThreads

NoCall == [op |-> "none"]

IdleLocal == [h |-> Nil, created |-> Nil, call |-> NoCall]

\* &ResendClient{APIKey: key}
Init ==
    /\ APIKey \in APIKeys
    /\ onSend = Nil
    /\ nHooks = 0
    /\ hooks = [h \in 1..MaxHooks |-> <<>>]
    /\ returned = {}
    /\ sends = 0
    /\ netCount = 0
    /\ last = NoCall
    /\ pc = [t \in Threads |-> "idle"]
    /\ local = [t \in Threads |-> IdleLocal]
    /\ FormCreated

\* OnSend allocating a hook on every call
OnSendAlwaysNew ==
    /\ nHooks < MaxHooks
    /\ onSend' = nHooks + 1
    /\ nHooks' = nHooks + 1
    /\ returned' = returned \cup {onSend'}
    /\ UNCHANGED <<APIKey, hooks, sends, netCount, last, pc, local>>
    /\ UNCHANGED formVars

\* c.OnSend(), run to completion
OnSend ==
    /\ onSend = Nil => nHooks < MaxHooks
    /\ onSend' = IF onSend = Nil THEN nHooks + 1 ELSE onSend
    /\ nHooks' = IF onSend = Nil THEN nHooks + 1 ELSE nHooks
    /\ returned' = returned \cup {onSend'}
    /\ UNCHANGED <<APIKey, hooks, sends, netCount, last, pc, local>>
    /\ UNCHANGED formVars

\* an observer is registered on a hook that OnSend returned
Bind(h, o) ==
    /\ h \in returned
    /\ h # Nil
    /\ Len(hooks[h]) < MaxObservers
    /\ hooks' = [hooks EXCEPT ![h] = Append(@, o)]
    /\ UNCHANGED <<APIKey, onSend, nHooks, returned, sends, netCount, last, pc, local>>
    /\ UNCHANGED formVars

\* what a Send call leaves behind
SendRecord(h, hs, key, call) ==
    LET r == ClientSend(h, hs, key, call.m, call.env)
    IN  [op |-> "Send", m |-> call.m, env |-> call.env,
         hook |-> h,
         handlers |-> IF h = Nil THEN <<>> ELSE hs[h],
         err |-> r.err, requests |-> r.requests, ran |-> r.ran,
         trace |-> r.trace, sent |-> r.sent]

\* c.Send(m), run to completion
Send(call) ==
    /\ sends < MaxSends
    /\ sends' = sends + 1
    /\ last' = SendRecord(onSend, hooks, APIKey, call)
    /\ netCount' = netCount + Len(last'.requests)
    /\ UNCHANGED <<APIKey, onSend, nHooks, hooks, returned, pc, local>>
    /\ UNCHANGED formVars

Next ==
    \/ OnSend
    \/ \E h \in 1..MaxHooks, o \in Observers : Bind(h, o)
    \/ \E call \in Calls : Send(call)

Spec == Init /\ [][Next]_vars

(* ---------------- goroutines sharing one client ------------------------ *)

\* the calls and observers the goroutines use
ConcCalls ==
    { Call(DefaultMsg, DefaultEnv(DefaultMsg)),
      Call(DefaultMsg, [DefaultEnv(DefaultMsg) EXCEPT !.net = Response(401, <<>>)]) }

ConcObservers == {ObsNext, ObsStopErr}

\* a goroutine calls c.OnSend()
CallOnSend(t) ==
    /\ pc[t] = "idle"
    /\ pc' = [pc EXCEPT ![t] = "OnSend32"]
    /\ local' = [local EXCEPT ![t] = [@ EXCEPT !.created = Nil]]
    /\ UNCHANGED <<APIKey, onSend, nHooks, hooks, returned, sends, netCount, last>>
    /\ UNCHANGED formVars

\* line 32: if c.onSend == nil
OnSendCheck(t) ==
    /\ pc[t] = "OnSend32"
    /\ pc' = [pc EXCEPT ![t] = IF onSend = Nil THEN "OnSend33" ELSE "OnSend35"]
    /\ UNCHANGED <<APIKey, onSend, nHooks, hooks, returned, sends, netCount, last, local>>
    /\ UNCHANGED formVars

\* line 33: c.onSend = &hook.Hook[*SendEvent]{}
OnSendCreate(t) ==
    /\ pc[t] = "OnSend33"
    /\ nHooks < MaxHooks
    /\ nHooks' = nHooks + 1
    /\ onSend' = nHooks + 1
    /\ local' = [local EXCEPT ![t] = [@ EXCEPT !.created = nHooks + 1]]
    /\ pc' = [pc EXCEPT ![t] = "OnSend35"]
    /\ UNCHANGED <<APIKey, hooks, returned, sends, netCount, last>>
    /\ UNCHANGED formVars

\* line 35: return c.onSend. The read is not synchronised with the other
\* goroutines' writes: it yields the field's current value or the value
\* this goroutine stored itself.
OnSendReturn(t) ==
    /\ pc[t] = "OnSend35"
    /\ \E v \in {onSend} \cup (IF local[t].created # Nil THEN {local[t].created} ELSE {}) :
          /\ local' = [local EXCEPT ![t] = [@ EXCEPT !.h = v]]
          /\ returned' = returned \cup {v}
    /\ pc' = [pc EXCEPT ![t] = "idle"]
    /\ UNCHANGED <<APIKey, onSend, nHooks, hooks, sends, netCount, last>>
    /\ UNCHANGED formVars

\* a goroutine registers an observer on the hook its OnSend call returned
ThreadBind(t, o) ==
    /\ pc[t] = "idle"
    /\ local[t].h # Nil
    /\ Len(hooks[local[t].h]) < MaxObservers
    /\ hooks' = [hooks EXCEPT ![local[t].h] = Append(@, o)]
    /\ UNCHANGED <<APIKey, onSend, nHooks, returned, sends, netCount, last, pc, local>>
    /\ UNCHANGED formVars

\* a goroutine calls c.Send(m)
CallSend(t, call) ==
    /\ pc[t] = "idle"
    /\ sends < MaxSends
    /\ sends' = sends + 1
    /\ local' = [local EXCEPT ![t] = [@ EXCEPT !.call = call]]
    /\ pc' = [pc EXCEPT ![t] = "Send40"]
    /\ UNCHANGED <<APIKey, onSend, nHooks, hooks, returned, netCount, last>>
    /\ UNCHANGED formVars

\* line 40: if c.onSend != nil
SendCheck(t) ==
    /\ pc[t] = "Send40"
    /\ pc' = [pc EXCEPT ![t] = IF onSend # Nil THEN "Send41" ELSE "Send46"]
    /\ UNCHANGED <<APIKey, onSend, nHooks, hooks, returned, sends, netCount, last, local>>
    /\ UNCHANGED formVars

\* lines 41-43: return c.onSend.Trigger(...)
SendTrigger(t) ==
    /\ pc[t] = "Send41"
    /\ last' = SendRecord(onSend, hooks, APIKey, local[t].call)
    /\ netCount' = netCount + Len(last'.requests)
    /\ pc' = [pc EXCEPT ![t] = "idle"]
    /\ UNCHANGED <<APIKey, onSend, nHooks, hooks, returned, sends, local>>
    /\ UNCHANGED formVars

\* line 46: return c.send(m)
SendDirect(t) ==
    /\ pc[t] = "Send46"
    /\ last' = SendRecord(Nil, hooks, APIKey, local[t].call)
    /\ netCount' = netCount + Len(last'.requests)
    /\ pc' = [pc EXCEPT ![t] = "idle"]
    /\ UNCHANGED <<APIKey, onSend, nHooks, hooks, returned, sends, local>>
    /\ UNCHANGED formVars

NextConc ==
    \E t \in Threads :
        \/ CallOnSend(t)
        \/ OnSendCheck(t)
        \/ OnSendCreate(t)
        \/ OnSendReturn(t)
        \/ \E o \in ConcObservers : ThreadBind(t, o)
        \/ \E call \in ConcCalls : CallSend(t, call)
        \/ SendCheck(t)
        \/ SendTrigger(t)
        \/ SendDirect(t)

SpecConc == Init /\ [][NextConc]_vars

(* ------------------------- mail settings form ------------------------- *)

\* the update requests one behaviour may have unanswered at a time
MaxInflight == 2

\* emailProviderOptions: the values of the provider select
emailProviderOptions == <<"", "smtp", "resend">>

Providers == { emailProviderOptions[i] : i \in DOMAIN emailProviderOptions }

\* authMethods[0].value
DefaultAuthMethod == "PLAIN"

\* the mask the server and the form put in place of a stored secret
Mask == "******"

\* the values typed into the sender name and into the API key
SenderNames == {"", "a"}

ApiKeys == {"", "k"}

\* what the settings API answers: any provider with any pair of enabled
\* flags (records written before emailProvider existed have it empty), the
\* secret masked or empty
ServerSettings ==
    [ loaded        : {TRUE},
      meta          : [senderName : {"a"}],
      smtp          : [enabled : BOOLEAN, authMethod : {"", DefaultAuthMethod}],
      resend        : [enabled : BOOLEAN, apiKey : {"", Mask}],
      emailProvider : Providers ]

BoolString(b) == IF b THEN "true" ELSE "false"

\* JSON.stringify of a settings object: the values in the order of the keys,
\* which init fixes; "{}" for the empty object
Stringify(o) ==
    IF ~o.loaded THEN <<>>
    ELSE << o.meta.senderName,
            BoolString(o.smtp.enabled), o.smtp.authMethod,
            BoolString(o.resend.enabled),
            IF "apiKey" \in DOMAIN o.resend THEN o.resend.apiKey ELSE "undefined",
            o.emailProvider >>

\* $: initialHash = JSON.stringify(originalFormSettings)
\* $: hasChanges = initialHash != JSON.stringify(formSettings)
\* (the reactive statements run before the next event is handled)
hasChanges == Stringify(originalFormSettings) # Stringify(formSettings)

\* init(settings): the form's copy of the settings, the provider derived
\* from the enabled flags when it is not set, the default auth method
init(settings) ==
    LET provider ==
            IF settings.emailProvider # "" THEN settings.emailProvider
            ELSE IF settings.smtp.enabled THEN "smtp"
            ELSE IF settings.resend.enabled THEN "resend"
            ELSE ""
        authMethod ==
            IF settings.smtp.authMethod = "" THEN DefaultAuthMethod
            ELSE settings.smtp.authMethod
    IN  [ loaded        |-> TRUE,
          meta          |-> settings.meta,
          smtp          |-> [settings.smtp EXCEPT !.authMethod = authMethod],
          resend        |-> settings.resend,
          emailProvider |-> provider ]

\* CommonHelper.filterRedactedProps: a copy without the properties that
\* hold the mask
filterRedactedProps(o) ==
    IF o.resend.apiKey = Mask
        THEN [o EXCEPT !.resend = [enabled |-> o.resend.enabled]]
        ELSE o

\* save() keeping the enabled flags as the form holds them
settingsToSaveKeepsFlags(fs) == filterRedactedProps(fs)

\* the record save() submits: the filtered copy with the two enabled flags
\* set from the selected provider
settingsToSave(fs) ==
    LET copy == filterRedactedProps(fs)
    IN  [copy EXCEPT !.smtp.enabled = (copy.emailProvider = "smtp"),
                     !.resend.enabled = (copy.emailProvider = "resend")]

SaveRecord(trigger, issued, request) ==
    [ called     |-> TRUE,
      trigger    |-> trigger,
      isSaving   |-> isSaving,
      hasChanges |-> hasChanges,
      issued     |-> issued,
      request    |-> request ]

\* save() returning only when the form has no changes
saveNoGuard(trigger) ==
    /\ Len(inflight) < MaxInflight
    /\ IF ~hasChanges
          THEN /\ lastSave' = SaveRecord(trigger, FALSE, NoSettings)
               /\ UNCHANGED <<isSaving, inflight>>
          ELSE /\ isSaving' = TRUE
               /\ inflight' = Append(inflight, settingsToSave(formSettings))
               /\ lastSave' = SaveRecord(trigger, TRUE, settingsToSave(formSettings))
    /\ UNCHANGED <<formSettings, originalFormSettings, isLoading, lastResult>>
    /\ UNCHANGED clientVars

\* save() up to its await: nothing when a save is running or the form has
\* no changes, else isSaving is set and the update request goes out
save(trigger) ==
    /\ Len(inflight) < MaxInflight
    /\ IF isSaving \/ ~hasChanges
          THEN /\ lastSave' = SaveRecord(trigger, FALSE, NoSettings)
               /\ UNCHANGED <<isSaving, inflight>>
          ELSE /\ isSaving' = TRUE
               /\ inflight' = Append(inflight, settingsToSave(formSettings))
               /\ lastSave' = SaveRecord(trigger, TRUE, settingsToSave(formSettings))
    /\ UNCHANGED <<formSettings, originalFormSettings, isLoading, lastResult>>
    /\ UNCHANGED clientVars

\* the fields are in the page once loading is over; with the empty object
\* left by a failed load they cannot be drawn
Rendered == ~isLoading /\ formSettings.loaded

\* loadSettings() after its await, the settings received
LoadDone(settings) ==
    /\ isLoading
    /\ formSettings' = init(settings)
    /\ originalFormSettings' = init(settings)
    /\ isLoading' = FALSE
    /\ UNCHANGED <<isSaving, inflight, lastSave, lastResult>>
    /\ UNCHANGED clientVars

\* loadSettings() after its await, the request failed
LoadFail ==
    /\ isLoading
    /\ isLoading' = FALSE
    /\ UNCHANGED <<formSettings, originalFormSettings, isSaving, inflight, lastSave,
                   lastResult>>
    /\ UNCHANGED clientVars

\* bind:value={formSettings.meta.senderName}
EditSenderName(v) ==
    /\ Rendered
    /\ formSettings' = [formSettings EXCEPT !.meta.senderName = v]
    /\ UNCHANGED <<originalFormSettings, isLoading, isSaving, inflight, lastSave,
                   lastResult>>
    /\ UNCHANGED clientVars

\* bind:keyOfSelected={formSettings.emailProvider}
SelectProvider(p) ==
    /\ Rendered
    /\ formSettings' = [formSettings EXCEPT !.emailProvider = p]
    /\ UNCHANGED <<originalFormSettings, isLoading, isSaving, inflight, lastSave,
                   lastResult>>
    /\ UNCHANGED clientVars

\* bind:value={formSettings.resend.apiKey}, shown for the resend provider
EditApiKey(v) ==
    /\ Rendered
    /\ formSettings.emailProvider = "resend"
    /\ formSettings' = [formSettings EXCEPT !.resend.apiKey = v]
    /\ UNCHANGED <<originalFormSettings, isLoading, isSaving, inflight, lastSave,
                   lastResult>>
    /\ UNCHANGED clientVars

\* the Cancel button: shown with changes, disabled while saving
Reset ==
    /\ Rendered
    /\ hasChanges
    /\ ~isSaving
    /\ formSettings' = originalFormSettings
    /\ UNCHANGED <<originalFormSettings, isLoading, isSaving, inflight, lastSave,
                   lastResult>>
    /\ UNCHANGED clientVars

\* the submit button's click: shown with changes, disabled while saving
ClickSave ==
    /\ Rendered
    /\ hasChanges
    /\ ~isSaving
    /\ save("click")

\* the form's submit event: the form element is in the page from the start,
\* and the browser sends the event only when the required fields are filled
SubmitForm ==
    /\ Rendered => formSettings.meta.senderName # ""
    /\ save("submit")

\* save() after its await, the update answered with the stored settings
UpdateDone(settings) ==
    /\ inflight # <<>>
    /\ inflight' = Tail(inflight)
    /\ formSettings' = init(settings)
    /\ originalFormSettings' = init(settings)
    /\ isSaving' = FALSE
    /\ lastResult' = "ok"
    /\ UNCHANGED <<isLoading, lastSave>>
    /\ UNCHANGED clientVars

\* save() after its await, the update rejected
UpdateFail ==
    /\ inflight # <<>>
    /\ inflight' = Tail(inflight)
    /\ isSaving' = FALSE
    /\ lastResult' = "failed"
    /\ UNCHANGED <<formSettings, originalFormSettings, isLoading, lastSave>>
    /\ UNCHANGED clientVars

NextForm ==
    \/ \E settings \in ServerSettings : LoadDone(settings)
    \/ LoadFail
    \/ \E v \in SenderNames : EditSenderName(v)
    \/ \E p \in Providers : SelectProvider(p)
    \/ \E v \in ApiKeys : EditApiKey(v)
    \/ Reset
    \/ ClickSave
    \/ SubmitForm
    \/ \E settings \in ServerSettings : UpdateDone(settings)
    \/ UpdateFail

\* the page just opened, beside a client that is not used
InitForm ==
    /\ Init
    /\ APIKey = <<>>

SpecForm == InitForm /\ [][NextForm]_vars

(* ------------------------------ properties ---------------------------- *)

\* a Send call has returned
Sent == last.op = "Send"

\* every observer registered when the last Send was made forwards
AllForward == \A i \in 1..Len(last.handlers) : last.handlers[i].kind # "stop"

\* the last Send issued its request
Transmitted == Sent /\ Len(last.requests) = 1

\* the payload of the request the last Send issued
Payload == last.requests[1].payload

FailingNames(atts) == { n \in DOMAIN atts : ReaderFails(atts[n]) }

AllReadable(m) ==
    FailingNames(m.Attachments) = {} /\ FailingNames(m.InlineAttachments) = {}

NoMessageIDKey(m) == \A k \in DOMAIN m.Headers : ~EqualFold(k, MessageID)

\* C1 as stated: with an empty APIKey, Send returns a non-nil error and
\* issues no request, whatever hook or observers the client has.
C1_Original ==
    (Sent /\ APIKey = <<>>) => (~last.err.isNil /\ last.requests = <<>>)

\* C1 amended: with an empty APIKey, Send issues no request at all, and
\* it returns the "API key is required" error whenever no observer stops
\* the chain (no hook, a hook without observers, or observers that all
\* forward).
C1_MissingKey ==
    (Sent /\ APIKey = <<>>) =>
        /\ last.requests = <<>>
        /\ netCount = 0
        /\ AllForward =>
              /\ ~last.err.isNil
              /\ last.err.fmt = "resend API key is required"

C1_Witness ==
    /\ Sent
    /\ APIKey = <<>>
    /\ Len(last.handlers) > 0
    /\ AllForward
    /\ ~last.err.isNil

\* C2: when an observer returns without forwarding, the Send call issues
\* no request, the observers after it are not run, and Send returns that
\* observer's result.
C2_ObserverStops ==
    Sent =>
        \A i \in 1..Len(last.handlers) :
            (/\ last.handlers[i].kind = "stop"
             /\ \A j \in 1..(i - 1) : last.handlers[j].kind # "stop")
            => /\ last.requests = <<>>
               /\ last.err = last.handlers[i].result
               /\ last.ran = [k \in 1..i |-> k]

C2_Witness ==
    /\ Sent
    /\ APIKey # <<>>
    /\ Len(last.handlers) = 2
    /\ last.handlers[1].kind # "stop"
    /\ last.handlers[2] = ObsStopNil
    /\ last.err.isNil
    /\ last.requests = <<>>

\* C3 as stated: a Message sent with an API key, without a Message-ID
\* header in any case (also without any header) and with one "@" in the
\* From address, is transmitted with a Message-ID header <token@domain>
\* whose domain is the part of the From address after the "@".
C3_MessageIDAdded ==
    (/\ Transmitted
     /\ NoMessageIDKey(last.m)
     /\ Len(Split(last.m.From.Address, "@")) = 2)
    => /\ MessageID \in DOMAIN Payload.Headers
       /\ Payload.Headers[MessageID] =
              <<"<">> \o last.env.token \o <<"@">>
              \o Split(last.m.From.Address, "@")[2] \o <<">">>

\* C4: with zero or several "@" in the From address the payload carries
\* the caller's headers and nothing else (no Message-ID is added), and the
\* send goes on to its request.
C4_NoMessageIDWithoutDomain ==
    (/\ Sent
     /\ APIKey # <<>>
     /\ AllForward
     /\ AllReadable(last.m)
     /\ Len(Split(last.m.From.Address, "@")) # 2)
    => /\ Len(last.requests) = 1
       /\ Payload.Headers = last.m.Headers

C4_Witness ==
    /\ Transmitted
    /\ Len(Split(last.m.From.Address, "@")) = 3
    /\ DOMAIN last.m.Headers = {XCustom}
    /\ DOMAIN Payload.Headers = {XCustom}
    /\ last.err.isNil

\* C5: calls made one after another: every value OnSend has returned is a
\* hook (not nil) and is the one hook the client holds, so all calls
\* returned the same instance.
C5_SameHook ==
    /\ Nil \notin returned
    /\ \A h \in returned : h = onSend
    /\ Cardinality(returned) <= 1

C5_Witness ==
    /\ Sent
    /\ returned = {onSend}
    /\ onSend # Nil
    /\ Len(hooks[onSend]) > 0
    /\ last.handlers = <<>>

\* C6 as stated: under every interleaving of the goroutines, one hook
\* instance at most is created, all OnSend calls return it, and the hook a
\* goroutine registers observers on is the one Send consults.
C6_OneHookInstance ==
    /\ nHooks <= 1
    /\ Cardinality(returned) <= 1
    /\ \A t \in Threads : (pc[t] = "idle" /\ local[t].h # Nil) => local[t].h = onSend

\* C7: when every attachment reader reads to its end, the payload has one
\* entry for each regular and each inline attachment (two for a filename
\* in both maps), each with its filename and with a base64 content that
\* decodes to the bytes of its reader.
C7_Attachments ==
    (Transmitted /\ AllReadable(last.m)) =>
        LET nReg == Cardinality(DOMAIN last.m.Attachments)
            nInl == Cardinality(DOMAIN last.m.InlineAttachments)
            atts == Payload.Attachments
        IN  /\ Len(atts) = nReg + nInl
            /\ \A i \in 1..nReg :
                  /\ atts[i].Filename = last.env.attOrder[i]
                  /\ DecodeString(atts[i].Content) =
                        [ok |-> TRUE,
                         bytes |-> last.m.Attachments[last.env.attOrder[i]].data]
            /\ \A i \in 1..nInl :
                  /\ atts[nReg + i].Filename = last.env.inlineOrder[i]
                  /\ DecodeString(atts[nReg + i].Content) =
                        [ok |-> TRUE,
                         bytes |-> last.m.InlineAttachments[last.env.inlineOrder[i]].data]

C7_Witness ==
    /\ Transmitted
    /\ F1 \in DOMAIN last.m.Attachments
    /\ F1 \in DOMAIN last.m.InlineAttachments
    /\ Len(Payload.Attachments) = 4
    /\ \E i \in 1..4 : Len(Payload.Attachments[i].Content) = 8

\* C8: when a regular or inline attachment reader fails, while sniffed or
\* while read, Send returns an error naming a failing attachment and
\* issues no request, however many attachments were prepared before.
C8_AttachmentFailure ==
    (/\ Sent
     /\ APIKey # <<>>
     /\ AllForward
     /\ ~AllReadable(last.m))
    => /\ last.requests = <<>>
       /\ ~last.err.isNil
       /\ \/ /\ last.err.fmt = "failed to prepare attachment %s: %w"
             /\ last.err.arg \in FailingNames(last.m.Attachments)
          \/ /\ last.err.fmt = "failed to prepare inline attachment %s: %w"
             /\ last.err.arg \in FailingNames(last.m.InlineAttachments)

C8_Witness ==
    /\ Sent
    /\ APIKey # <<>>
    /\ Cardinality(DOMAIN last.m.Attachments) = 2
    /\ FailingNames(last.m.Attachments) = {}
    /\ last.err.fmt = "failed to prepare inline attachment %s: %w"
    /\ last.err.arg = F2
    /\ last.requests = <<>>

\* C9: when a response is received, Send returns nil exactly for a status
\* in 200..299, whatever the body; for another status the error holds the
\* status code and the message of a body that decodes with a non-empty
\* message, or else the raw body.
C9_ResponseStatus ==
    (Transmitted /\ ~last.env.net.fail) =>
        LET resp == last.env.net
            errResp == Unmarshal(resp.body)
        IN  /\ last.err.isNil <=> (resp.StatusCode >= 200 /\ resp.StatusCode <= 299)
            /\ ~last.err.isNil =>
                  /\ last.err.code = resp.StatusCode
                  /\ last.err.arg = IF errResp.ok /\ errResp.Message # ""
                                    THEN <<errResp.Message>>
                                    ELSE resp.body

C9_Witness ==
    /\ Transmitted
    /\ last.env.net.StatusCode = 401
    /\ last.err.code = 401
    /\ last.err.arg = <<"Invalid API key">>

\* C10: the text of the payload is the Message's Text when it has one;
\* with no Text and an HTML body it is the plain text derived from the
\* HTML; and when the derivation fails the text is empty and the request
\* is issued all the same.
C10_TextBody ==
    /\ Transmitted =>
          Payload.Text =
              IF last.m.Text # <<>> THEN last.m.Text
              ELSE IF last.env.html2TextFails THEN <<>>
              ELSE html2Text(last.m.HTML, FALSE).plain
    /\ (/\ Sent
        /\ APIKey # <<>>
        /\ AllForward
        /\ AllReadable(last.m)
        /\ last.m.Text = <<>>
        /\ last.m.HTML # <<>>
        /\ last.env.html2TextFails)
       => /\ Len(last.requests) = 1
          /\ Payload.Text = <<>>

C10_Witness ==
    /\ Transmitted
    /\ last.m.Text = <<>>
    /\ last.m.HTML # <<>>
    /\ last.env.html2TextFails
    /\ Payload.Text = <<>>
    /\ last.err.isNil

\* C11: a Send call issues one request at most, and a call whose request
\* met a network failure or a status outside 200..299 returns the error
\* with that one request issued; over the client's life no more requests
\* are issued than Send calls were made (nothing is retried or sent later).
C11_SingleAttempt ==
    /\ netCount <= sends
    /\ Sent =>
          /\ Len(last.requests) <= 1
          /\ (/\ Transmitted
              /\ \/ last.env.net.fail
                 \/ last.env.net.StatusCode < 200
                 \/ last.env.net.StatusCode > 299)
             => ~last.err.isNil

C11_Witness ==
    /\ Transmitted
    /\ last.env.net.fail
    /\ last.err.fmt = "failed to send resend request: %w"
    /\ netCount = 1

RECURSIVE SubjectAfter(_, _)
\* the subject of the event's Message once the observers hs have run
SubjectAfter(hs, subject) ==
    IF hs = <<>> THEN subject
    ELSE SubjectAfter(Tail(hs),
                      IF Head(hs).kind = "mutate" THEN Head(hs).subject ELSE subject)

\* C13: when every observer forwards, the observers run once each in the
\* order of registration, the transmission routine is called once, after
\* the last of them, and it is given the Message the event holds then.
C13_ObserversForward ==
    (Sent /\ AllForward) =>
        LET n == Len(last.handlers)
            carried == [last.m EXCEPT
                           !.Subject = SubjectAfter(last.handlers, last.m.Subject)]
        IN  /\ last.trace = [k \in 1..(n + 1) |-> IF k <= n THEN k ELSE Terminal]
            /\ last.sent = <<carried>>
            /\ Len(last.requests) <= 1
            /\ Transmitted => Payload.Subject = carried.Subject

C13_Witness ==
    /\ Transmitted
    /\ last.handlers = <<ObsNext, ObsMutate>>
    /\ last.trace = <<1, 2, Terminal>>
    /\ last.m.Subject = <<"S">>
    /\ Payload.Subject = <<"M">>

\* C14: with no observer registered, hook never created or created and
\* left empty, Send(m) returns what send(m) returns and issues the requests
\* send(m) issues.
C14_NoObservers ==
    (Sent /\ last.handlers = <<>>) =>
        LET r == send(APIKey, last.m, last.env)
        IN  /\ last.err = r.err
            /\ last.requests = r.requests
            /\ last.sent = <<last.m>>
            /\ last.ran = <<>>

C14_Witness ==
    /\ Transmitted
    /\ last.hook # Nil
    /\ last.handlers = <<>>
    /\ last.err.code = 401

MessageIDKeys(h) == { k \in DOMAIN h : EqualFold(k, MessageID) }

\* C15: the caller's headers are all in the payload, key and value
\* unchanged; when one of the keys is Message-ID in some case nothing is
\* added; the payload has two Message-ID keys only when the caller gave
\* two.
C15_CallerHeaders ==
    (Transmitted /\ DOMAIN last.m.Headers # {}) =>
        /\ \A k \in DOMAIN last.m.Headers :
              /\ k \in DOMAIN Payload.Headers
              /\ Payload.Headers[k] = last.m.Headers[k]
        /\ MessageIDKeys(last.m.Headers) # {} =>
              DOMAIN Payload.Headers = DOMAIN last.m.Headers
        /\ Cardinality(MessageIDKeys(Payload.Headers)) >= 2 =>
              Cardinality(MessageIDKeys(last.m.Headers)) >= 2

C15_Witness ==
    /\ Transmitted
    /\ DOMAIN last.m.Headers = {LowerMessageID}
    /\ Len(Split(last.m.From.Address, "@")) = 2
    /\ DOMAIN Payload.Headers = {LowerMessageID}

Submitted ==
    { inflight[i] : i \in DOMAIN inflight }
        \cup (IF lastSave.called /\ lastSave.issued THEN {lastSave.request} ELSE {})

\* C12: in every settings record the form submits, smtp.enabled is true
\* exactly when emailProvider is "smtp" and resend.enabled exactly when it
\* is "resend": never both, and neither for the empty provider.
C12_OneProvider ==
    \A r \in Submitted :
        /\ r.smtp.enabled <=> (r.emailProvider = "smtp")
        /\ r.resend.enabled <=> (r.emailProvider = "resend")
        /\ ~(r.smtp.enabled /\ r.resend.enabled)
        /\ r.emailProvider = "" => (~r.smtp.enabled /\ ~r.resend.enabled)

C12_Witness ==
    /\ lastSave.called
    /\ lastSave.issued
    /\ originalFormSettings.smtp.enabled
    /\ originalFormSettings.emailProvider = "smtp"
    /\ lastSave.request.emailProvider = "resend"
    /\ lastSave.request.resend.enabled
    /\ ~lastSave.request.smtp.enabled

\* C16: save() sends an update only when no save is running and the form
\* has changes, so at most one update is unanswered at any time, and
\* isSaving is false whenever no update is unanswered, after a success as
\* after a failure.
C16_OneSaveInFlight ==
    /\ Len(inflight) <= 1
    /\ isSaving <=> (inflight # <<>>)
    /\ (lastSave.called /\ lastSave.issued) =>
          (~lastSave.isSaving /\ lastSave.hasChanges)
    /\ (lastSave.called /\ (lastSave.isSaving \/ ~lastSave.hasChanges)) =>
          ~lastSave.issued

C16_Witness ==
    /\ lastResult = "failed"
    /\ lastSave.called
    /\ lastSave.trigger = "submit"
    /\ lastSave.isSaving
    /\ lastSave.hasChanges
    /\ ~lastSave.issued
    /\ Len(inflight) = 1

====
